---- MODULE Spec2Model ----
(***************************************************************************)
(* CythonGraph (graphi/types/cython_graph/plain_graph.pyx): a directed     *)
(* graph stored as                                                         *)
(*   _incidences  : dict  node -> set of neighbours                        *)
(*   _edge_values : dict  (node, node) -> value                            *)
(* Python objects live on a heap and names refer to them, so that a copy   *)
(* sharing storage with its source is expressible.  A dict is a function,  *)
(* a set is a set; iteration order of a set or dict is arbitrary, so a     *)
(* loop that raises part-way is a choice over the prefixes it may have     *)
(* processed.                                                              *)
(***************************************************************************)
EXTENDS Integers, FiniteSets, Sequences, Bags, TLC

\* ------------------------------------------------------------- bounds
MaxNode == 2
MaxVal == 2
MaxSteps == 4
MaxMapEdges == 2

MaxArgs == 3

\* `True`, the value _add_edge stores and the presence sentinel of g[a] = True
ValTrue == 0

\* `None`: the default of get(item, default=None), an argument a call does
\* not take, a name bound to no object
None == -1

Nodes == 1..MaxNode
Values == ValTrue..MaxVal

VARIABLES heap, g2, last, steps, view, seen, iter

vars == <<heap, g2, last, steps, view, seen, iter>>

\* ------------------------------------------------------------- dicts
EmptyDict == [k \in {} |-> 0]

DictPut(d, k, v) == [x \in (DOMAIN d) \cup {k} |-> IF x = k THEN v ELSE d[x]]

DictDrop(d, ks) == [x \in (DOMAIN d) \ ks |-> d[x]]

\* ------------------------------------------------------------- graph state
\* __init__: self._incidences = {}; self._edge_values = {}
EmptyGraph == [incidences |-> EmptyDict, edge_values |-> EmptyDict]

\* __contains__ / __iter__ for a node key
NodesOf(g) == DOMAIN g.incidences

\* __contains__ for an edge key: (node_from, node_to) in self._edge_values
EdgesOf(g) == DOMAIN g.edge_values

\* NodeAdjacencyView.__iter__: iter(self._graph._incidences[self._node_from])
Neighbours(g, node_from) == g.incidences[node_from]

\* NodeAdjacencyView.__len__: len(self._graph._incidences[self._node_from])
AdjacencyLen(g, node_from) == Cardinality(g.incidences[node_from])

\* the heads in node_from's adjacency set for which graph[node_from:head] raises
StaleHeads(g, node_from) ==
    {h \in g.incidences[node_from] : <<node_from, h>> \notin DOMAIN g.edge_values}

\* __getitem__ for an edge key that looks the tail up as a node first
GetItemEdgeChecksNode(g, node_from, node_to) ==
    IF node_from \notin DOMAIN g.incidences
    THEN [out |-> "NodeError", value |-> None]
    ELSE IF <<node_from, node_to>> \in DOMAIN g.edge_values
    THEN [out |-> "ok", value |-> g.edge_values[<<node_from, node_to>>]]
    ELSE [out |-> "EdgeError", value |-> None]

\* __getitem__ for an edge key: the stored value, or EdgeError
GetItemEdge(g, node_from, node_to) ==
    IF <<node_from, node_to>> \in DOMAIN g.edge_values
    THEN [out |-> "ok", value |-> g.edge_values[<<node_from, node_to>>]]
    ELSE [out |-> "EdgeError", value |-> None]

\* get(item, default) for an edge key
GetEdge(g, node_from, node_to, default) ==
    IF <<node_from, node_to>> \in DOMAIN g.edge_values
    THEN g.edge_values[<<node_from, node_to>>]
    ELSE default

\* ------------------------------------------------------------- cdef helpers
\* _add_node without the membership test: an existing adjacency set is replaced
_add_node_reset(g, node) == [g EXCEPT !.incidences = DictPut(@, node, {})]

_add_node(g, node) ==
    IF node \notin DOMAIN g.incidences
    THEN [g EXCEPT !.incidences = DictPut(@, node, {})]
    ELSE g

\* _set_edge that stores the reverse edge too
_set_edge_symmetric(g, node_from, node_to, value) ==
    [incidences |-> [g.incidences EXCEPT ![node_from] = @ \cup {node_to},
                                         ![node_to] = @ \cup {node_from}],
     edge_values |-> DictPut(DictPut(g.edge_values, <<node_from, node_to>>, value),
                             <<node_to, node_from>>, value)]

\* _set_edge that leaves the value of an existing edge alone, as _add_edge does
_set_edge_keep(g, node_from, node_to, value) ==
    IF <<node_from, node_to>> \in DOMAIN g.edge_values
    THEN g
    ELSE [incidences |-> [g.incidences EXCEPT ![node_from] = @ \cup {node_to}],
          edge_values |-> DictPut(g.edge_values, <<node_from, node_to>>, value)]

\* callers ensure node_from is a key of _incidences
_set_edge(g, node_from, node_to, value) ==
    [incidences |-> [g.incidences EXCEPT ![node_from] = @ \cup {node_to}],
     edge_values |-> DictPut(g.edge_values, <<node_from, node_to>>, value)]

\* _add_edge with the guard dropped: an existing value is reset to True
_add_edge_overwrite(g, node_from, node_to) ==
    _set_edge(g, node_from, node_to, ValTrue)

_add_edge(g, node_from, node_to) ==
    IF <<node_from, node_to>> \notin DOMAIN g.edge_values
    THEN _set_edge(g, node_from, node_to, ValTrue)
    ELSE g

\* ------------------------------------------------------------- outcomes
\* what a call leaves behind: the graph, and how the call ended
Outcome(g, out) == [g |-> g, out |-> out]

\* ------------------------------------------------------------- __setitem__
\* graph[node_from:node_to] = value, checking the tail only
SetItemEdgeTailOnly(g, node_from, node_to, value) ==
    IF node_from \notin DOMAIN g.incidences
    THEN {Outcome(g, "NodeError")}
    ELSE {Outcome(_set_edge(g, node_from, node_to, value), "ok")}

\* graph[node_from:node_to] = value
SetItemEdge(g, node_from, node_to, value) ==
    IF node_from \notin DOMAIN g.incidences
    THEN {Outcome(g, "NodeError")}
    ELSE IF node_to \notin DOMAIN g.incidences
    THEN {Outcome(g, "NodeError")}
    ELSE {Outcome(_set_edge(g, node_from, node_to, value), "ok")}

\* graph[item] = True taken as an assignment of an empty adjacency
SetItemTrueReplaces(g, item) ==
    {Outcome([g EXCEPT !.incidences = DictPut(@, item, {})], "ok")}

\* graph[item] = True
SetItemTrue(g, item) == {Outcome(_add_node(g, item), "ok")}

\* for node_to in value: self._add_node(node_to); self._set_edge(item, node_to, value[node_to])
RECURSIVE SetHeads(_, _, _, _)
SetHeads(g, node_from, adjacency, todo) ==
    IF todo = {}
    THEN g
    ELSE LET node_to == CHOOSE h \in todo : TRUE
         IN SetHeads(_set_edge(_add_node(g, node_to), node_from, node_to, adjacency[node_to]),
                     node_from, adjacency, todo \ {node_to})

\* graph[item] = {b: 3, c: 4} without self._add_node(node_to)
SetItemMappingNoHeads(g, item, value) ==
    LET added == _add_node(g, item)
    IN {Outcome([incidences |-> [added.incidences EXCEPT ![item] = @ \cup DOMAIN value],
                 edge_values |-> [e \in (DOMAIN g.edge_values) \cup {<<item, h>> : h \in DOMAIN value}
                                    |-> IF e[1] = item /\ e[2] \in DOMAIN value
                                        THEN value[e[2]]
                                        ELSE g.edge_values[e]]],
                "ok")}

\* graph[item] = {b: 3, c: 4} replacing the adjacency of item: the edges
\* item had are dropped before the mapping's are set
SetItemMappingReplaces(g, item, value) ==
    LET cleared == [incidences |-> DictPut(g.incidences, item, {}),
                    edge_values |-> DictDrop(g.edge_values,
                                             {e \in DOMAIN g.edge_values : e[1] = item})]
    IN {Outcome(SetHeads(cleared, item, value, DOMAIN value), "ok")}

\* graph[item] = {b: 3, c: 4}
SetItemMapping(g, item, value) ==
    {Outcome(SetHeads(_add_node(g, item), item, value, DOMAIN value), "ok")}

\* graph[item] = value for a NodeAdjacencyView of this graph, of node_from:
\* g[a] = g[a] returns at once, any other view is refused
SetItemView(g, item, node_from) ==
    IF node_from = item
    THEN {Outcome(g, "ok")}
    ELSE {Outcome(g, "NotImplementedError")}

\* graph[item] = value with the node added before the value is looked at
SetItemOtherAddsNode(g, item, value) ==
    {Outcome(_add_node(g, item), "AdjacencyListTypeError")}

\* graph[item] = value for a value that is not a view, not True, not a Mapping
SetItemOther(g, item, value) == {Outcome(g, "AdjacencyListTypeError")}

\* ------------------------------------------------------------- __delitem__
\* del graph[node_from:node_to]
DelItemEdge(g, node_from, node_to) ==
    IF <<node_from, node_to>> \notin DOMAIN g.edge_values
    THEN {Outcome(g, "EdgeError")}
    ELSE LET deleted == [g EXCEPT !.edge_values = DictDrop(@, {<<node_from, node_to>>})]
         IN IF node_from \notin DOMAIN g.incidences
            THEN {Outcome(deleted, "KeyError")}
            ELSE IF node_to \notin g.incidences[node_from]
            THEN {Outcome(deleted, "KeyError")}
            ELSE {Outcome([deleted EXCEPT !.incidences[node_from] = @ \ {node_to}], "ok")}

\* del graph[item]: pop the adjacency set, delete the outgoing values (a
\* head without a value raises KeyError out of the loop, after any subset of
\* the other heads), then delete the incoming values of the remaining nodes
DelItemNode(g, item) ==
    IF item \notin DOMAIN g.incidences
    THEN {Outcome(g, "NodeError")}
    ELSE LET incidences == g.incidences[item]
             popped == DictDrop(g.incidences, {item})
             stale == StaleHeads(g, item)
         IN IF stale = {}
            THEN {Outcome([incidences |-> popped,
                           edge_values |-> DictDrop(g.edge_values,
                               {<<item, node_to>> : node_to \in incidences}
                               \cup {<<node_from, item>> : node_from \in DOMAIN popped})],
                          "ok")}
            ELSE {Outcome([incidences |-> popped,
                           edge_values |-> DictDrop(g.edge_values,
                               {<<item, node_to>> : node_to \in done})],
                          "KeyError") : done \in SUBSET (incidences \ stale)}

\* ------------------------------------------------------------- clear, add, discard
\* clear() that forgets the nodes and keeps the edge values
ClearNodesOnly(g) == {Outcome([g EXCEPT !.incidences = EmptyDict], "ok")}

Clear(g) == {Outcome(EmptyGraph, "ok")}

AddNode(g, item) == {Outcome(_add_node(g, item), "ok")}

\* add(Edge[a:b]) without self._add_node(item.stop)
AddEdgeTailOnly(g, node_from, node_to) ==
    {Outcome(_add_edge(_add_node(g, node_from), node_from, node_to), "ok")}

\* add(Edge[a:b])
AddEdge(g, node_from, node_to) ==
    {Outcome(_add_edge(_add_node(_add_node(g, node_from), node_to), node_from, node_to), "ok")}

\* try: del self[item]  except (NodeError, EdgeError): pass
Suppress(outcomes) ==
    {Outcome(r.g, IF r.out \in {"NodeError", "EdgeError"} THEN "ok" ELSE r.out) : r \in outcomes}

DiscardNode(g, item) == Suppress(DelItemNode(g, item))

DiscardEdge(g, node_from, node_to) == Suppress(DelItemEdge(g, node_from, node_to))

\* ------------------------------------------------------------- lookups
\* what a call returns: a value, a NodeAdjacencyView (of node x), or nothing
Ret(kind, x) == [kind |-> kind, x |-> x]

NoRet == Ret("none", None)

Returned(g, out, ret) == [g |-> g, out |-> out, ret |-> ret]

\* graph[node_from:node_to]
GetItemEdgeCall(g, node_from, node_to) ==
    LET r == GetItemEdge(g, node_from, node_to)
    IN {Returned(g, r.out, IF r.out = "ok" THEN Ret("value", r.value) ELSE NoRet)}

\* graph[item]: NodeAdjacencyView(self, item), or NodeError
GetItemNode(g, item) ==
    IF item \in DOMAIN g.incidences
    THEN {Returned(g, "ok", Ret("view", item))}
    ELSE {Returned(g, "NodeError", NoRet)}

\* graph.get(Edge[node_from:node_to], default)
GetEdgeCall(g, node_from, node_to, default) ==
    {Returned(g, "ok", Ret("value", GetEdge(g, node_from, node_to, default)))}

\* graph.get(item, default) that looks the node up as graph[item] does
GetNodeRaises(g, item, default) == GetItemNode(g, item)

\* graph.get(item, default)
GetNode(g, item, default) ==
    IF item \in DOMAIN g.incidences
    THEN {Returned(g, "ok", Ret("view", item))}
    ELSE {Returned(g, "ok", Ret("value", default))}

\* ------------------------------------------------------------- keys
\* what is written between the brackets of graph[...] or passed to add: a
\* slice a:b, a tuple (a, b) or a plain node
Key(class, start, stop) == [class |-> class, start |-> start, stop |-> stop]

SliceKey(a, b) == Key("slice", a, b)

TupleKey(a, b) == Key("tuple", a, b)

NodeKey(n) == Key("int", n, None)

\* the node a tuple (a, b) is, as a dict key: a value apart from every plain
\* node and from every other tuple
Pair(a, b) == MaxNode * a + b

\* the node a key that is no slice stands for
NodeOf(item) == IF item.class = "tuple" THEN Pair(item.start, item.stop) ELSE item.start

\* a test that takes a tuple of two for an edge key as well
IsSliceOrPair(item) == item.class \in {"slice", "tuple"}

\* item.__class__ is slice / isinstance(item, slice)
IsSlice(item) == item.class = "slice"

\* __contains__
Contains(g, item) ==
    IF IsSlice(item)
    THEN {Returned(g, "ok", Ret("bool", <<item.start, item.stop>> \in DOMAIN g.edge_values))}
    ELSE {Returned(g, "ok", Ret("bool", NodeOf(item) \in DOMAIN g.incidences))}

\* __getitem__
GetItem(g, item) ==
    IF IsSlice(item)
    THEN GetItemEdgeCall(g, item.start, item.stop)
    ELSE GetItemNode(g, NodeOf(item))

\* __setitem__ with True or another plain value
SetItem(g, item, value) ==
    IF IsSlice(item)
    THEN SetItemEdge(g, item.start, item.stop, value)
    ELSE IF value = ValTrue
    THEN SetItemTrue(g, NodeOf(item))
    ELSE SetItemOther(g, NodeOf(item), value)

\* __delitem__
DelItem(g, item) ==
    IF IsSlice(item)
    THEN DelItemEdge(g, item.start, item.stop)
    ELSE DelItemNode(g, NodeOf(item))

\* add
Add(g, item) ==
    IF IsSlice(item)
    THEN AddEdge(g, item.start, item.stop)
    ELSE AddNode(g, NodeOf(item))

\* ------------------------------------------------------------- sizes
\* len(graph) taken of the edge values instead of the adjacency dict
GraphLenEdges(g) == Cardinality(DOMAIN g.edge_values)

\* len(graph)
GraphLen(g) == Cardinality(DOMAIN g.incidences)

\* bool(graph)
Bool(g) == DOMAIN g.incidences # {}

\* len(graph.nodes())
NodeViewLen(g) == Cardinality(DOMAIN g.incidences)

\* len(graph.edges())
EdgeViewLen(g) == Cardinality(DOMAIN g.edge_values)

\* what iter(graph.values()) yields, as a bag: one value per stored edge
ValueViewBag(g) ==
    [v \in {g.edge_values[e] : e \in DOMAIN g.edge_values}
        |-> Cardinality({e \in DOMAIN g.edge_values : g.edge_values[e] = v})]

\* len(graph.values()) counting each distinct value once
ValueViewLenDistinct(g) == Cardinality(DOMAIN ValueViewBag(g))

\* len(graph.values())
ValueViewLen(g) == Cardinality(DOMAIN g.edge_values)

\* len(graph.items())
ItemViewLen(g) == Cardinality(DOMAIN g.edge_values)

\* ------------------------------------------------------------- decorator layer
\* a wrapper object: a reference to the wrapped graph (not owned), whether
\* it keeps the graph symmetric, and the ceiling on the node count (None:
\* no ceiling)
Wrapper(graph, undirected, bound) ==
    [graph |-> graph, undirected |-> undirected, bound |-> bound]

\* the nodes a call naming `items` would add to the graph
NewNodes(g, items) == items \ NodesOf(g)

\* a call naming `items` would push the node count past the ceiling
PastBound(w, g, items) ==
    /\ w.bound # None
    /\ GraphLen(g) + Cardinality(NewNodes(g, items)) > w.bound

\* setEdge(tail, head, value) mirrored to setEdge(head, tail, value)
MirroredSetEdge(g, node_from, node_to, value) ==
    UNION {IF r.out = "ok" THEN SetItemEdge(r.g, node_to, node_from, value) ELSE {r}
           : r \in SetItemEdge(g, node_from, node_to, value)}

\* deleteEdge(tail, head) mirrored to deleteEdge(head, tail); an edge from a
\* node to itself is its own mirror image, deleted once or looked up twice
MirroredDelEdge(g, node_from, node_to) ==
    UNION {IF r.out # "ok"
           THEN {r}
           ELSE IF node_from = node_to
           THEN {r} \cup DelItemEdge(r.g, node_to, node_from)
           ELSE DelItemEdge(r.g, node_to, node_from)
           : r \in DelItemEdge(g, node_from, node_to)}

\* setNode through the wrapper
WrapSetNode(w, g, item) ==
    IF PastBound(w, g, {item})
    THEN {Outcome(g, "CapacityError")}
    ELSE AddNode(g, item)

\* setEdge through the wrapper
WrapSetEdge(w, g, node_from, node_to, value) ==
    IF PastBound(w, g, {node_from, node_to})
    THEN {Outcome(g, "CapacityError")}
    ELSE IF w.undirected
    THEN MirroredSetEdge(g, node_from, node_to, value)
    ELSE SetItemEdge(g, node_from, node_to, value)

\* deleteEdge through the wrapper
WrapDelEdge(w, g, node_from, node_to) ==
    IF w.undirected
    THEN MirroredDelEdge(g, node_from, node_to)
    ELSE DelItemEdge(g, node_from, node_to)

\* deleteNode through the wrapper: delegated
WrapDelNode(w, g, item) == DelItemNode(g, item)

\* get(tail, head) through the wrapper: reads pass through unchanged
WrapGetEdge(w, g, node_from, node_to) == GetItemEdgeCall(g, node_from, node_to)

\* ------------------------------------------------------------- views
\* a view object: the graph it refers to (_graph) and, for an adjacency
\* view, the node (_node_from)
View(kind, graph, node_from) == [kind |-> kind, graph |-> graph, node_from |-> node_from]

NoView == View("none", None, None)

ViewKinds == {"nodes", "edges", "values", "items", "adjacency"}

\* what one read of a view reports: whether len() and iter() raise, the
\* length, what iteration yields and what `in` accepts
Observed(out, len, contents, members) ==
    [out |-> out, len |-> len, contents |-> contents, members |-> members]

NodeViewRead(g) ==
    Observed("ok", NodeViewLen(g), DOMAIN g.incidences, DOMAIN g.incidences)

EdgeViewRead(g) ==
    Observed("ok", EdgeViewLen(g), DOMAIN g.edge_values, DOMAIN g.edge_values)

ValueViewRead(g) ==
    Observed("ok", ValueViewLen(g), ValueViewBag(g), DOMAIN ValueViewBag(g))

ItemViewRead(g) ==
    LET items == {<<e[1], e[2], g.edge_values[e]>> : e \in DOMAIN g.edge_values}
    IN Observed("ok", ItemViewLen(g), items, items)

\* ItemView.__contains__ that looks the edge up and leaves its value aside
ItemViewContainsEdge(g, edge_value) ==
    IF Len(edge_value) # 3
    THEN {Returned(g, "TypeError", NoRet)}
    ELSE {Returned(g, "ok", Ret("bool", <<edge_value[1], edge_value[2]>> \in DOMAIN g.edge_values))}

\* ItemView.__contains__: edge_value is unpacked into three (TypeError when
\* it has another length), then self._graph._edge_values[node_a, node_b]
\* == value, a KeyError of the lookup giving False
ItemViewContains(g, edge_value) ==
    IF Len(edge_value) # 3
    THEN {Returned(g, "TypeError", NoRet)}
    ELSE LET node_a == edge_value[1]
             node_b == edge_value[2]
             value == edge_value[3]
         IN IF <<node_a, node_b>> \in DOMAIN g.edge_values
            THEN {Returned(g, "ok", Ret("bool", g.edge_values[<<node_a, node_b>>] = value))}
            ELSE {Returned(g, "ok", Ret("bool", FALSE))}

\* NodeAdjacencyView: len and iter read _incidences[_node_from] and raise
\* KeyError once the node is gone; `in` reads _edge_values
NodeAdjacencyViewRead(g, node_from) ==
    LET members == {e[2] : e \in {x \in DOMAIN g.edge_values : x[1] = node_from}}
    IN IF node_from \in DOMAIN g.incidences
       THEN Observed("ok", AdjacencyLen(g, node_from), g.incidences[node_from], members)
       ELSE Observed("KeyError", None, {}, members)

ViewRead(g, v) ==
    IF v.kind = "nodes" THEN NodeViewRead(g)
    ELSE IF v.kind = "edges" THEN EdgeViewRead(g)
    ELSE IF v.kind = "values" THEN ValueViewRead(g)
    ELSE IF v.kind = "items" THEN ItemViewRead(g)
    ELSE NodeAdjacencyViewRead(g, v.node_from)

\* a view that keeps the graph as it was when the view was made
ViewGraphSnapshot(h, v, made) == made

\* self._graph, looked up at every read; `made` is the graph as it was when
\* the view was made, which the view does not keep
ViewGraph(h, v, made) == h[v.graph]

\* ------------------------------------------------------------- iterators
\* the generator of EdgeView.__iter__ / ItemView.__iter__: not started, or
\* running over a dict of `used` entries of which `yielded` have been given;
\* `dict` is the dict it runs over once the graph has let go of it
Iter(state, kind, used, yielded, detached, dict) ==
    [state |-> state, kind |-> kind, used |-> used, yielded |-> yielded,
     detached |-> detached, dict |-> dict]

NoIter == Iter("none", "none", 0, {}, FALSE, EmptyDict)

NewIter(kind) == Iter("new", kind, 0, {}, FALSE, EmptyDict)

\* clear() rebinds _edge_values: a running dict iterator keeps the old dict
Detach(it, edge_values) ==
    IF it.state = "running" /\ ~it.detached
    THEN [it EXCEPT !.detached = TRUE, !.dict = edge_values]
    ELSE it

\* the iterator after a call `op` on the graph
AfterCall(it, op, g) == IF op = "clear" THEN Detach(it, g.edge_values) ELSE it

\* one next() on the generator: the first one reads self._graph._edge_values
\* and starts the dict iterator; a dict of another size than at the start
\* raises RuntimeError; the order of the keys is arbitrary
NextItem(it, g) ==
    LET started == IF it.state = "new"
                   THEN [it EXCEPT !.state = "running",
                                   !.used = Cardinality(DOMAIN g.edge_values)]
                   ELSE it
        dict == IF started.detached THEN started.dict ELSE g.edge_values
        left == (DOMAIN dict) \ started.yielded
    IN IF Cardinality(DOMAIN dict) # started.used
       THEN {[it |-> [started EXCEPT !.state = "done"], out |-> "RuntimeError", edge |-> <<None, None>>]}
       ELSE IF left = {}
       THEN {[it |-> [started EXCEPT !.state = "done"], out |-> "StopIteration", edge |-> <<None, None>>]}
       ELSE {[it |-> [started EXCEPT !.yielded = @ \cup {e}], out |-> "ok", edge |-> e] : e \in left}

\* ------------------------------------------------------------- representations
\* the node counts at which __str__ changes the detail it renders
StrFull == 16

StrPartial == 64

StrNames == 128

\* NodeAdjacencyView._data_str: graph[node_from:node_to] for every node_to of
\* the adjacency set, which raises EdgeError for a head without a value
NodeDataStr(g, node_from) ==
    IF StaleHeads(g, node_from) = {} THEN "ok" ELSE "EdgeError"

\* CythonGraph._data_str: every node rendered with its adjacency
DataStr(g) ==
    IF \A node \in DOMAIN g.incidences : NodeDataStr(g, node) = "ok"
    THEN "ok"
    ELSE "EdgeError"

\* str(graph): full detail up to StrFull nodes; up to StrPartial nodes the
\* first StrFull in detail, through NodeAdjacencyView(node), a call with one
\* argument of a constructor that takes two; node names only beyond that, at
\* most StrNames of them. Returned is the number of nodes the string names.
Str(g) ==
    LET n == Cardinality(DOMAIN g.incidences)
    IN IF n <= StrFull
       THEN IF DataStr(g) = "ok"
            THEN {Returned(g, "ok", Ret("str", n))}
            ELSE {Returned(g, DataStr(g), NoRet)}
       ELSE IF n <= StrPartial
       THEN {Returned(g, "TypeError", NoRet)}
       ELSE IF n <= StrNames
       THEN {Returned(g, "ok", Ret("str", n))}
       ELSE {Returned(g, "ok", Ret("str", StrNames))}

\* ------------------------------------------------------------- update
\* for node_from in other: self._add_node(node_from); then its heads
RECURSIVE UpdateNodes(_, _, _)
UpdateNodes(g, other, todo) ==
    IF todo = {}
    THEN g
    ELSE LET node_from == CHOOSE n \in todo : TRUE
         IN UpdateNodes(SetHeads(_add_node(g, node_from), node_from,
                                 other[node_from], DOMAIN other[node_from]),
                        other, todo \ {node_from})

\* update(other) for a Mapping node -> (node -> value)
UpdateMapping(g, other) == {Outcome(UpdateNodes(g, other, DOMAIN other), "ok")}

\* for node in other: self._add_node(node)
RECURSIVE AddNodes(_, _)
AddNodes(g, todo) ==
    IF todo = {}
    THEN g
    ELSE LET node == CHOOSE n \in todo : TRUE
         IN AddNodes(_add_node(g, node), todo \ {node})

\* update(other) for a plain iterable of nodes
UpdateIterable(g, other) == {Outcome(AddNodes(g, other), "ok")}

\* other[node_from] read through NodeAdjacencyView: the heads whose value lookup succeeds
AdjacencyOf(other, node_from) ==
    [h \in other.incidences[node_from] \ StaleHeads(other, node_from)
        |-> other.edge_values[<<node_from, h>>]]

\* update(other) for another CythonGraph: node_adjacency[node_to] is
\* other[node_from:node_to], which raises EdgeError for a head without a value,
\* after self._add_node(node_to) and after any part of the loops before it
UpdateGraph(g, other) ==
    LET dirty == {n \in DOMAIN other.incidences : StaleHeads(other, n) # {}}
        clean == (DOMAIN other.incidences) \ dirty
        adjacency == [n \in DOMAIN other.incidences |-> AdjacencyOf(other, n)]
    IN IF dirty = {}
       THEN {Outcome(UpdateNodes(g, adjacency, clean), "ok")}
       ELSE UNION { UNION { UNION {
                {Outcome(_add_node(SetHeads(_add_node(UpdateNodes(g, adjacency, before), node_from),
                                            node_from, adjacency[node_from], done),
                                   node_to),
                         "EdgeError")
                    : node_to \in StaleHeads(other, node_from)}
                : done \in SUBSET (DOMAIN adjacency[node_from])}
                : node_from \in dirty}
                : before \in SUBSET clean}

\* ------------------------------------------------------------- construction
\* _adjacency_from_graph: {node: {other: graph[node:other] for other in graph[node]}}
\* graph[node:other] raises EdgeError for a head without a value
_adjacency_from_graph(graph) ==
    IF \E n \in DOMAIN graph.incidences : StaleHeads(graph, n) # {}
    THEN [out |-> "EdgeError", adjacency |-> EmptyDict]
    ELSE [out |-> "ok",
          adjacency |-> [n \in DOMAIN graph.incidences |-> AdjacencyOf(graph, n)]]

\* _adjacency_from_mapping: {node: {other: neighbours[other] for other in neighbours}}
_adjacency_from_mapping(adjacency_dict) ==
    [n \in DOMAIN adjacency_dict |->
        [h \in DOMAIN adjacency_dict[n] |-> adjacency_dict[n][h]]]

\* CythonGraph(graph): __init__ then __init_graph__
InitGraph(graph) ==
    LET a == _adjacency_from_graph(graph)
    IN IF a.out = "ok"
       THEN Outcome(UpdateNodes(EmptyGraph, a.adjacency, DOMAIN a.adjacency), "ok")
       ELSE Outcome(EmptyGraph, a.out)

\* CythonGraph(mapping) that takes the keys as nodes and not the heads
InitMappingKeysOnly(mapping) ==
    [incidences |-> [n \in DOMAIN mapping |-> DOMAIN mapping[n]],
     edge_values |-> [e \in {x \in Nodes \X Nodes :
                                x[1] \in DOMAIN mapping /\ x[2] \in DOMAIN mapping[x[1]]}
                        |-> mapping[e[1]][e[2]]]]

\* CythonGraph(mapping): __init__ then __init_mapping__
InitMapping(mapping) ==
    LET a == _adjacency_from_mapping(mapping)
    IN UpdateNodes(EmptyGraph, a, DOMAIN a)

\* CythonGraph(iterable) / CythonGraph(*nodes): self._incidences[node] = set()
InitIterable(iterable) ==
    [incidences |-> [n \in iterable |-> {}], edge_values |-> EmptyDict]

\* __init_iterable__ that takes the first node only
InitSequenceFirst(items) ==
    IF items = <<>>
    THEN EmptyGraph
    ELSE [incidences |-> DictPut(EmptyDict, items[1], {}), edge_values |-> EmptyDict]

\* __init_iterable__ over a sequence: self._incidences[node] = set() in order
RECURSIVE InitSequence(_)
InitSequence(items) ==
    IF items = <<>>
    THEN EmptyGraph
    ELSE LET before == InitSequence(SubSeq(items, 1, Len(items) - 1))
         IN [before EXCEPT !.incidences = DictPut(@, items[Len(items)], {})]

\* one positional argument of CythonGraph(...): a graph, a mapping, an iterable
\* of nodes or a node
Arg(class, g, m, items, n) == [class |-> class, g |-> g, m |-> m, items |-> items, n |-> n]

GraphArg(g) == Arg("graph", g, EmptyDict, <<>>, None)

MappingArg(m) == Arg("mapping", EmptyGraph, m, <<>>, None)

IterableArg(items) == Arg("iterable", EmptyGraph, EmptyDict, items, None)

NodeArg(n) == Arg("node", EmptyGraph, EmptyDict, <<>>, n)

\* __init_kwargs__: TypeError naming the keyword arguments, if there are any
InitKwargs(g, kwargs) ==
    IF kwargs = {}
    THEN Returned(g, "ok", NoRet)
    ELSE Returned(EmptyGraph, "TypeError", Ret("names", kwargs))

\* CythonGraph(*source, **kwargs): the new graph, or what __init__ raises
New(source, kwargs) ==
    LET built ==
            IF source = <<>>
            THEN Outcome(EmptyGraph, "ok")
            ELSE IF Len(source) = 1 /\ source[1].class = "graph"
            THEN InitGraph(source[1].g)
            ELSE IF Len(source) = 1 /\ source[1].class = "mapping"
            THEN Outcome(InitMapping(source[1].m), "ok")
            ELSE IF Len(source) = 1 /\ source[1].class = "iterable"
            THEN Outcome(InitSequence(source[1].items), "ok")
            ELSE Outcome(InitSequence([i \in DOMAIN source |-> source[i].n]), "ok")
    IN IF built.out = "ok"
       THEN InitKwargs(built.g, kwargs)
       ELSE Returned(EmptyGraph, built.out, NoRet)

\* ------------------------------------------------------------- copy
\* copy returning the object itself instead of a new graph
CopyAlias(h, self) == [heap |-> h, ref |-> self, out |-> "ok"]

\* copy(): return CythonGraph(self); the new object takes the free address
Copy(h, self) ==
    LET r == InitGraph(h[self])
        new == CHOOSE o \in 1..(Cardinality(DOMAIN h) + 1) : o \notin DOMAIN h
    IN IF r.out = "ok"
       THEN [heap |-> DictPut(h, new, r.g), ref |-> new, out |-> "ok"]
       ELSE [heap |-> h, ref |-> None, out |-> r.out]

\* ------------------------------------------------------------- inputs
\* adjacency mappings head -> value
AdjMappings == UNION {[H -> Values] : H \in SUBSET Nodes}

EdgeSets == {E \in SUBSET (Nodes \X Nodes) : Cardinality(E) <= MaxMapEdges}

MappingOf(D, w) ==
    [n \in D |-> [h \in {x \in Nodes : <<n, x>> \in DOMAIN w} |-> w[<<n, h>>]]]

\* values that are neither True nor a Mapping nor a view: None, 1, 2, ...
OtherValues == (Values \ {ValTrue}) \cup {None}

\* the default argument of get
Defaults == Values \cup {None}

\* nested mappings node -> (head -> value) with at most MaxMapEdges edges
NestedMappings ==
    UNION { UNION { {MappingOf(D, w) : D \in {X \in SUBSET Nodes : {e[1] : e \in E} \subseteq X}}
                    : w \in [E -> Values]}
            : E \in EdgeSets}

\* sequences of at most MaxArgs nodes, duplicates included
NodeSeqs == UNION {[1..k -> Nodes] : k \in 0..MaxArgs}

\* keyword arguments, by name
Options == {"undirected", "bound"}

\* the positional arguments of a construction: none, the graph g, a nested
\* mapping, one iterable of nodes, or nodes
Sources(g) ==
    {<<>>, <<GraphArg(g)>>}
        \cup {<<MappingArg(m)>> : m \in NestedMappings}
        \cup {<<IterableArg(items)>> : items \in NodeSeqs}
        \cup {[i \in DOMAIN items |-> NodeArg(items[i])] : items \in NodeSeqs \ {<<>>}}

\* the keys of the calls: edges between plain nodes, plain nodes, and nodes
\* that are tuples of two plain nodes
Keys ==
    {SliceKey(a, b) : a \in Nodes, b \in Nodes}
        \cup {TupleKey(a, b) : a \in Nodes, b \in Nodes}
        \cup {NodeKey(n) : n \in Nodes}

\* ------------------------------------------------------------- the program
\* the object a name is bound to: G is the first graph constructed, G2 a copy
Obj(name) == IF name = "G" THEN 1 ELSE g2

Bound(name) == Obj(name) \in DOMAIN heap

Call(op, name, a, b, v, src, out) ==
    [op |-> op, o |-> name, a |-> a, b |-> b, v |-> v, src |-> src, out |-> out,
     ret |-> NoRet]

\* one call on the graph bound to `name`; t = 1 counts the call against MaxSteps
Act(name, t, outcomes, op, a, b, v, src) ==
    /\ t = 1 => steps < MaxSteps
    /\ \E r \in outcomes :
          /\ heap' = [heap EXCEPT ![Obj(name)] = r.g]
          /\ last' = Call(op, name, a, b, v, src, r.out)
    /\ steps' = steps + t
    /\ iter' = AfterCall(iter, op, heap[Obj(name)])
    /\ UNCHANGED <<g2, view, seen>>

\* one call that returns something to the caller
Read(name, t, results, op, a, b, v) ==
    /\ t = 1 => steps < MaxSteps
    /\ \E r \in results :
          /\ heap' = [heap EXCEPT ![Obj(name)] = r.g]
          /\ last' = [Call(op, name, a, b, v, EmptyDict, r.out) EXCEPT !.ret = r.ret]
    /\ steps' = steps + t
    /\ UNCHANGED <<g2, view, seen, iter>>

Init ==
    /\ \E g \in {InitIterable(it) : it \in SUBSET Nodes}
                 \cup {InitMapping(m) : m \in NestedMappings} :
          heap = [o \in {1} |-> g]
    /\ g2 = None
    /\ last = Call("init", "G", None, None, None, EmptyDict, "ok")
    /\ steps = 0
    /\ view = NoView
    /\ seen = EmptyGraph
    /\ iter = NoIter

DoAddNode(name, t) ==
    \E n \in Nodes :
        Act(name, t, AddNode(heap[Obj(name)], n), "add", n, None, None, EmptyDict)

DoAddEdge(name, t) ==
    \E a \in Nodes, b \in Nodes :
        Act(name, t, AddEdge(heap[Obj(name)], a, b), "add_edge", a, b, None, EmptyDict)

DoSetItemEdge(name, t) ==
    \E a \in Nodes, b \in Nodes, v \in Values :
        Act(name, t, SetItemEdge(heap[Obj(name)], a, b, v), "set_edge", a, b, v, EmptyDict)

DoSetItemTrue(name, t) ==
    \E n \in Nodes :
        Act(name, t, SetItemTrue(heap[Obj(name)], n), "set_true", n, None, None, EmptyDict)

DoSetItemMapping(name, t) ==
    \E n \in Nodes, m \in AdjMappings :
        Act(name, t, SetItemMapping(heap[Obj(name)], n, m), "set_mapping", n, None, None, m)

\* g[n] = g[m], the view taken of a node m of the graph
DoSetItemView(name, t) ==
    \E n \in Nodes, m \in NodesOf(heap[Obj(name)]) :
        Act(name, t, SetItemView(heap[Obj(name)], n, m), "set_view", n, m, None, EmptyDict)

\* g[n] = None, g[n] = 1, ...
DoSetItemOther(name, t) ==
    \E n \in Nodes, v \in OtherValues :
        Act(name, t, SetItemOther(heap[Obj(name)], n, v), "set_other", n, None, v, EmptyDict)

DoDelItemNode(name, t) ==
    \E n \in Nodes :
        Act(name, t, DelItemNode(heap[Obj(name)], n), "del_node", n, None, None, EmptyDict)

DoDelItemEdge(name, t) ==
    \E a \in Nodes, b \in Nodes :
        Act(name, t, DelItemEdge(heap[Obj(name)], a, b), "del_edge", a, b, None, EmptyDict)

DoDiscardNode(name, t) ==
    \E n \in Nodes :
        Act(name, t, DiscardNode(heap[Obj(name)], n), "discard_node", n, None, None, EmptyDict)

DoDiscardEdge(name, t) ==
    \E a \in Nodes, b \in Nodes :
        Act(name, t, DiscardEdge(heap[Obj(name)], a, b), "discard_edge", a, b, None, EmptyDict)

DoClear(name, t) ==
    Act(name, t, Clear(heap[Obj(name)]), "clear", None, None, None, EmptyDict)

DoUpdateMapping(name, t) ==
    \E m \in NestedMappings :
        Act(name, t, UpdateMapping(heap[Obj(name)], m), "update_mapping", None, None, None, m)

DoUpdateIterable(name, t) ==
    \E it \in SUBSET Nodes :
        Act(name, t, UpdateIterable(heap[Obj(name)], it), "update_iterable",
            None, None, None, [n \in it |-> EmptyDict])

\* G.update(G2) or G2.update(G), the two being distinct objects
DoUpdateGraph(name, t) ==
    \E other \in {"G", "G2"} \ {name} :
        /\ Bound(other)
        /\ Obj(other) # Obj(name)
        /\ Act(name, t, UpdateGraph(heap[Obj(name)], heap[Obj(other)]), "update_graph",
               None, None, None, EmptyDict)

\* G2 = G.copy(); the object G2 named before is unreachable once G2 is rebound
DoCopy ==
    /\ steps < MaxSteps
    /\ LET r == Copy(DictDrop(heap, (DOMAIN heap) \ {1}), 1)
       IN /\ IF r.out = "ok"
             THEN heap' = r.heap /\ g2' = r.ref
             ELSE UNCHANGED <<heap, g2>>
          /\ last' = Call("copy", "G", None, None, None, EmptyDict, r.out)
    /\ steps' = steps + 1
    /\ UNCHANGED <<view, seen, iter>>

DoGetItemEdge(name, t) ==
    \E a \in Nodes, b \in Nodes :
        Read(name, t, GetItemEdgeCall(heap[Obj(name)], a, b), "getitem_edge", a, b, None)

DoGetItemNode(name, t) ==
    \E n \in Nodes :
        Read(name, t, GetItemNode(heap[Obj(name)], n), "getitem_node", n, None, None)

DoGetEdge(name, t) ==
    \E a \in Nodes, b \in Nodes, d \in Defaults :
        Read(name, t, GetEdgeCall(heap[Obj(name)], a, b, d), "get_edge", a, b, d)

DoGetNode(name, t) ==
    \E n \in Nodes, d \in Defaults :
        Read(name, t, GetNode(heap[Obj(name)], n, d), "get_node", n, None, d)

\* the nodes of the graphs __str__ is called on: enough to pass StrNames
StrNodes == 1..(StrNames + 2)

\* graph.add(n) for the first n that is no node yet
DoAddFresh(name, t) ==
    \E n \in StrNodes \ NodesOf(heap[Obj(name)]) :
        /\ \A m \in StrNodes \ NodesOf(heap[Obj(name)]) : n <= m
        /\ Act(name, t, AddNode(heap[Obj(name)], n), "add", n, None, None, EmptyDict)

DoStr(name, t) ==
    Read(name, t, Str(heap[Obj(name)]), "str", None, None, None)

\* a construction has been attempted
Constructed == last.op = "new"

\* G2 = CythonGraph(*source, **kwargs), G being one possible source; nothing
\* is bound when the construction raises
DoNew ==
    \E source \in Sources(heap[1]), kwargs \in SUBSET Options :
        LET r == New(source, kwargs)
        IN /\ IF r.out = "ok"
              THEN heap' = DictPut(DictDrop(heap, (DOMAIN heap) \ {1}), 2, r.g) /\ g2' = 2
              ELSE UNCHANGED <<heap, g2>>
           /\ last' = [Call("new", "G2", None, None, None,
                            [source |-> source, kwargs |-> kwargs], r.out)
                          EXCEPT !.ret = r.ret]
           /\ UNCHANGED <<steps, view, seen, iter>>

DoAddKey(name, t) ==
    \E item \in Keys :
        Act(name, t, Add(heap[Obj(name)], item), "add_key", None, None, None, item)

DoSetItemKey(name, t) ==
    \E item \in Keys, v \in Values :
        Act(name, t, SetItem(heap[Obj(name)], item, v), "set_key", None, None, v, item)

DoDelItemKey(name, t) ==
    \E item \in Keys :
        Act(name, t, DelItem(heap[Obj(name)], item), "del_key", None, None, None, item)

DoGetItemKey(name, t) ==
    \E item \in Keys :
        /\ t = 1 => steps < MaxSteps
        /\ \E r \in GetItem(heap[Obj(name)], item) :
              last' = [Call("getitem_key", name, None, None, None, item, r.out)
                          EXCEPT !.ret = r.ret]
        /\ steps' = steps + t
        /\ UNCHANGED <<heap, g2, view, seen, iter>>

DoContainsKey(name, t) ==
    \E item \in Keys :
        /\ t = 1 => steps < MaxSteps
        /\ \E r \in Contains(heap[Obj(name)], item) :
              last' = [Call("contains_key", name, None, None, None, item, r.out)
                          EXCEPT !.ret = r.ret]
        /\ steps' = steps + t
        /\ UNCHANGED <<heap, g2, view, seen, iter>>

\* v = g.nodes(), g.edges(), g.values(), g.items() or g[n]
DoView(name, t) ==
    \E kind \in ViewKinds, n \in Nodes \cup {None} :
        /\ steps < MaxSteps
        /\ IF kind = "adjacency"
           THEN n \in DOMAIN heap[Obj(name)].incidences
           ELSE n = None
        /\ view' = View(kind, Obj(name), n)
        /\ seen' = heap[Obj(name)]
        /\ last' = Call("view", name, n, None, None, EmptyDict, "ok")
        /\ steps' = steps + t
        /\ UNCHANGED <<heap, g2, iter>>

\* len(v), list(v) and x in v on the view held
DoViewRead(t) ==
    /\ view # NoView
    /\ steps < MaxSteps
    /\ LET r == ViewRead(ViewGraph(heap, view, seen), view)
       IN last' = [Call("view_read", "G", view.node_from, None, None, EmptyDict, r.out)
                      EXCEPT !.ret = Ret("len", r.len)]
    /\ steps' = steps + t
    /\ UNCHANGED <<heap, g2, view, seen, iter>>

\* it = iter(g.edges()) or it = iter(g.items())
DoIter(name, t) ==
    \E kind \in {"edges", "items"} :
        /\ steps < MaxSteps
        /\ iter' = NewIter(kind)
        /\ last' = Call("iter", name, None, None, None, EmptyDict, "ok")
        /\ steps' = steps + t
        /\ UNCHANGED <<heap, g2, view, seen>>

\* next(it)
DoNextItem(name, t) ==
    /\ iter.state \in {"new", "running"}
    /\ steps < MaxSteps
    /\ \E r \in NextItem(iter, heap[Obj(name)]) :
          /\ iter' = r.it
          /\ last' = Call("next", name, r.edge[1], r.edge[2], None, EmptyDict, r.out)
    /\ steps' = steps + t
    /\ UNCHANGED <<heap, g2, view, seen>>

\* the wrapper object, and the graph it wraps
TheWrapper == heap[0]

Wrapped == heap[TheWrapper.graph]

\* w = a wrapper of G, G being built from nodes only and within the ceiling
InitWrapped(undirecteds, bounds) ==
    /\ \E it \in SUBSET Nodes, undirected \in undirecteds, bound \in bounds :
          /\ bound # None => Cardinality(it) <= bound
          /\ heap = [o \in {0, 1} |-> IF o = 0
                                      THEN Wrapper(1, undirected, bound)
                                      ELSE InitIterable(it)]
    /\ g2 = None
    /\ last = Call("init", "G", None, None, None, EmptyDict, "ok")
    /\ steps = 0
    /\ view = NoView
    /\ seen = EmptyGraph
    /\ iter = NoIter

DoWrapSetNode(t) ==
    \E n \in Nodes :
        Act("G", t, WrapSetNode(TheWrapper, Wrapped, n), "w_set_node", n, None, None, EmptyDict)

DoWrapSetEdge(t) ==
    \E a \in Nodes, b \in Nodes, v \in Values :
        Act("G", t, WrapSetEdge(TheWrapper, Wrapped, a, b, v), "w_set_edge", a, b, v, EmptyDict)

DoWrapDelEdge(t) ==
    \E a \in Nodes, b \in Nodes :
        Act("G", t, WrapDelEdge(TheWrapper, Wrapped, a, b), "w_del_edge", a, b, None, EmptyDict)

DoWrapDelNode(t) ==
    \E n \in Nodes :
        Act("G", t, WrapDelNode(TheWrapper, Wrapped, n), "w_del_node", n, None, None, EmptyDict)

DoWrapGetEdge(t) ==
    \E a \in Nodes, b \in Nodes :
        Read("G", t, WrapGetEdge(TheWrapper, Wrapped, a, b), "w_get_edge", a, b, None)

\* every call on one graph
Next ==
    \/ DoAddNode("G", 0)
    \/ DoAddEdge("G", 0)
    \/ DoSetItemEdge("G", 0)
    \/ DoSetItemTrue("G", 0)
    \/ DoSetItemMapping("G", 0)
    \/ DoSetItemView("G", 0)
    \/ DoSetItemOther("G", 0)
    \/ DoDelItemNode("G", 0)
    \/ DoDelItemEdge("G", 0)
    \/ DoDiscardNode("G", 0)
    \/ DoDiscardEdge("G", 0)
    \/ DoClear("G", 0)
    \/ DoUpdateMapping("G", 0)
    \/ DoUpdateIterable("G", 0)

Spec == Init /\ [][Next]_vars

\* the lookups, between calls that add and remove nodes and edges
NextRead ==
    \/ DoAddNode("G", 0)
    \/ DoAddEdge("G", 0)
    \/ DoSetItemEdge("G", 0)
    \/ DoDelItemNode("G", 0)
    \/ DoDelItemEdge("G", 0)
    \/ DoClear("G", 0)
    \/ DoGetItemEdge("G", 0)
    \/ DoGetItemNode("G", 0)
    \/ DoGetEdge("G", 0)
    \/ DoGetNode("G", 0)

SpecRead == Init /\ [][NextRead]_vars

\* str(graph) on graphs of every size class, nodes being deleted in between
NextStr ==
    \/ DoAddFresh("G", 0)
    \/ DoDelItemNode("G", 0)
    \/ DoStr("G", 0)

SpecStr == Init /\ [][NextStr]_vars

\* one construction, from arguments or from a graph that has had nodes deleted
NextNew ==
    \/ ~Constructed /\ DoDelItemNode("G", 0)
    \/ ~Constructed /\ DoNew

SpecNew == Init /\ [][NextNew]_vars

\* calls with slices, tuples and plain nodes as keys, MaxSteps calls in all
NextKey ==
    \/ DoAddKey("G", 1)
    \/ DoSetItemKey("G", 1)
    \/ DoDelItemKey("G", 1)
    \/ DoGetItemKey("G", 1)
    \/ DoContainsKey("G", 1)

SpecKey == Init /\ [][NextKey]_vars

\* a view is taken and read between the calls that change the graph,
\* MaxSteps calls in all
NextView ==
    \/ DoView("G", 1)
    \/ DoViewRead(1)
    \/ DoAddNode("G", 1)
    \/ DoSetItemEdge("G", 1)
    \/ DoDelItemNode("G", 1)
    \/ DoDelItemEdge("G", 1)
    \/ DoClear("G", 1)

SpecView == Init /\ [][NextView]_vars

\* the graph changes between the steps of an iteration over its edges or
\* items, MaxSteps calls in all
NextIter ==
    \/ DoIter("G", 1)
    \/ DoNextItem("G", 1)
    \/ DoAddNode("G", 1)
    \/ DoSetItemEdge("G", 1)
    \/ DoDelItemNode("G", 1)
    \/ DoDelItemEdge("G", 1)
    \/ DoClear("G", 1)

SpecIter == Init /\ [][NextIter]_vars

\* the ceilings a wrapper is configured with
Ceilings == 0..MaxNode

\* edges set, deleted and read through a symmetry wrapper, with or without
\* a ceiling on the node count
NextSym ==
    \/ DoWrapSetNode(0)
    \/ DoWrapSetEdge(0)
    \/ DoWrapDelEdge(0)
    \/ DoWrapGetEdge(0)

SpecSym == InitWrapped({TRUE}, Ceilings \cup {None}) /\ [][NextSym]_vars

\* every call routed through a wrapper with a ceiling on the node count,
\* with or without symmetry
NextBound ==
    \/ DoWrapSetNode(0)
    \/ DoWrapSetEdge(0)
    \/ DoWrapDelEdge(0)
    \/ DoWrapDelNode(0)
    \/ DoWrapGetEdge(0)

SpecBound == InitWrapped(BOOLEAN, Ceilings) /\ [][NextBound]_vars

\* a graph and its copy, MaxSteps calls in all
Names == {"G", "G2"}

NextTwo ==
    \/ DoCopy
    \/ \E name \in Names : Bound(name) /\ DoAddNode(name, 1)
    \/ \E name \in Names : Bound(name) /\ DoAddEdge(name, 1)
    \/ \E name \in Names : Bound(name) /\ DoSetItemEdge(name, 1)
    \/ \E name \in Names : Bound(name) /\ DoDelItemNode(name, 1)
    \/ \E name \in Names : Bound(name) /\ DoDelItemEdge(name, 1)
    \/ \E name \in Names : Bound(name) /\ DoClear(name, 1)
    \/ \E name \in Names : Bound(name) /\ DoUpdateIterable(name, 1)
    \/ \E name \in Names : Bound(name) /\ DoUpdateGraph(name, 1)

SpecTwo == Init /\ [][NextTwo]_vars

\* ------------------------------------------------------------- claims
\* the graph the last call acted on
Target == heap[Obj(last.o)]

\* the number of edges (a, b) that are members, for a given tail a
OutDegree(g, a) == Cardinality({b \in Nodes : <<a, b>> \in EdgesOf(g)})

\* C1: when a is a node, `del g[a]` leaves a graph in which a is not a node
\* and, for every b, neither (a, b) nor (b, a) is a member or has a value.
C1_DelNodeRemovesIncidentEdges ==
    (last.op = "del_node" /\ last.out # "NodeError") =>
        /\ last.a \notin NodesOf(Target)
        /\ \A b \in Nodes :
              /\ <<last.a, b>> \notin EdgesOf(Target)
              /\ <<b, last.a>> \notin EdgesOf(Target)

\* C2: in every reachable state, also after calls that raised, every edge
\* that is a key of the edge-value map has its tail and its head in the
\* node set.
C2_EdgeEndpointsAreNodes ==
    \A e \in EdgesOf(heap[1]) :
        e[1] \in NodesOf(heap[1]) /\ e[2] \in NodesOf(heap[1])

\* C3: for every node a, the neighbours iterated by g[a] are exactly the
\* nodes b for which (a, b) is a key of the edge-value map.
C3_AdjacencyMatchesEdgeValues ==
    \A a \in NodesOf(heap[1]) : \A b \in Nodes :
        b \in Neighbours(heap[1], a) <=> <<a, b>> \in EdgesOf(heap[1])

\* C4: for every node a, len(g[a]) equals the outdegree of a, the number
\* of member edges (a, b).
C4_LenIsOutDegree ==
    \A a \in NodesOf(heap[1]) :
        AdjacencyLen(heap[1], a) = OutDegree(heap[1], a)

\* C5: `del g[a]` ends either normally or with NodeError, never otherwise,
\* and never in a state where a has left the node set while an edge value
\* with a as tail or head is still stored.
C5_DelNodeAllOrNothing ==
    last.op = "del_node" =>
        /\ last.out \in {"ok", "NodeError"}
        /\ last.a \notin NodesOf(Target) =>
              \A e \in EdgesOf(Target) : last.a # e[1] /\ last.a # e[2]

\* C6: `g[a:b] = v` fails with NodeError, leaving the graph unchanged,
\* whenever a or b is not a node; when both are nodes it succeeds and
\* afterwards g[a:b] == v and (a, b) is a member.
C6_SetEdgeNeedsBothNodes ==
    [][last'.op = "set_edge" =>
          IF last'.a \in NodesOf(heap[1]) /\ last'.b \in NodesOf(heap[1])
          THEN /\ last'.out = "ok"
               /\ <<last'.a, last'.b>> \in EdgesOf(heap'[1])
               /\ GetItemEdge(heap'[1], last'.a, last'.b) = [out |-> "ok", value |-> last'.v]
               /\ NodesOf(heap'[1]) = NodesOf(heap[1])
          ELSE /\ last'.out = "NodeError"
               /\ heap' = heap]_vars

\* C6 witness: an edge assignment between two nodes has succeeded with a
\* value other than True, which is the value now stored.
C6_Witness ==
    /\ last.op = "set_edge"
    /\ last.out = "ok"
    /\ last.v # ValTrue
    /\ GetItemEdge(heap[1], last.a, last.b).value = last.v

\* the call removes a, b or the edge (a, b)
CallRemoves(c, a, b) ==
    \/ c.op \in {"del_node", "discard_node"} /\ c.a \in {a, b}
    \/ c.op \in {"del_edge", "discard_edge"} /\ c.a = a /\ c.b = b
    \/ c.op = "clear"

\* the call sets the edge (a, b) to the value v
CallSets(c, a, b, v) ==
    \/ c.op = "set_edge" /\ c.out = "ok" /\ c.a = a /\ c.b = b /\ c.v = v
    \/ c.op = "set_mapping" /\ c.a = a /\ b \in DOMAIN c.src /\ c.src[b] = v
    \/ /\ c.op = "update_mapping"
       /\ a \in DOMAIN c.src
       /\ b \in DOMAIN c.src[a]
       /\ c.src[a][b] = v

\* C7: an edge (a, b) with value v keeps that value, get(a, b) returning v
\* and (a, b) staying a member, across every call that neither removes a,
\* b or the edge nor sets the edge anew.
C7_EdgeValueStable ==
    [][\A e \in EdgesOf(heap[1]) :
          \/ CallRemoves(last', e[1], e[2])
          \/ /\ e \in EdgesOf(heap'[1])
             /\ \/ GetEdge(heap'[1], e[1], e[2], None) = heap[1].edge_values[e]
                \/ CallSets(last', e[1], e[2], GetEdge(heap'[1], e[1], e[2], None))]_vars

\* C7 witness: a node has been deleted while an edge not touching it stays.
C7_Witness ==
    /\ last.op = "del_node"
    /\ last.out = "ok"
    /\ \E e \in EdgesOf(heap[1]) :
          /\ last.a # e[1] /\ last.a # e[2]
          /\ heap[1].edge_values[e] # ValTrue

\* C8: G.copy() succeeds in every reachable state and returns a graph with
\* the same nodes, the same edges and the same value on every edge.
C8_CopyIsEqual ==
    last.op = "copy" =>
        /\ last.out = "ok"
        /\ Bound("G2")
        /\ NodesOf(heap[g2]) = NodesOf(heap[1])
        /\ heap[g2].edge_values = heap[1].edge_values

\* C9: after G2 = G.copy(), no call on G2 changes G and no call on G
\* changes G2.
C9_CopyIsIndependent ==
    [][(Bound("G2") /\ last'.op # "copy") =>
          /\ last'.o = "G2" => heap'[1] = heap[1]
          /\ last'.o = "G" => heap'[g2] = heap[g2]]_vars

\* C9 witness: the copy carries a value on an edge that differs from the
\* value the original still has there, after an assignment on the copy.
C9_Witness ==
    /\ Bound("G2")
    /\ last.op = "set_edge" /\ last.o = "G2" /\ last.out = "ok"
    /\ <<last.a, last.b>> \in EdgesOf(heap[1])
    /\ heap[1].edge_values[<<last.a, last.b>>] # last.v
    /\ heap[g2].edge_values[<<last.a, last.b>>] = last.v

\* the other graph of the pair
OtherOf(name) == IF name = "G" THEN g2 ELSE 1

\* C10: G1.update(G2) succeeds, removes nothing of G1, keeps the value of
\* every edge of G1 that is not an edge of G2, and afterwards holds every
\* node and edge of G2, with G2's value on each edge of G2; from a plain
\* iterable of nodes only nodes are added.
C10_UpdateMerges ==
    [][/\ last'.op = "update_graph" =>
             LET before == heap[Obj(last'.o)]
                 after == heap'[Obj(last'.o)]
                 other == heap[OtherOf(last'.o)]
             IN /\ last'.out = "ok"
                /\ NodesOf(before) \cup NodesOf(other) \subseteq NodesOf(after)
                /\ EdgesOf(before) \cup EdgesOf(other) \subseteq EdgesOf(after)
                /\ \A e \in EdgesOf(other) : after.edge_values[e] = other.edge_values[e]
                /\ \A e \in EdgesOf(before) \ EdgesOf(other) :
                      after.edge_values[e] = before.edge_values[e]
       /\ last'.op = "update_iterable" =>
             LET before == heap[Obj(last'.o)]
                 after == heap'[Obj(last'.o)]
             IN /\ last'.out = "ok"
                /\ NodesOf(after) = NodesOf(before) \cup DOMAIN last'.src
                /\ after.edge_values = before.edge_values]_vars

\* the edges with a as tail or head
IncidentEdges(g, a) == {e \in EdgesOf(g) : a = e[1] \/ a = e[2]}

\* C11: from every reachable graph and for every node a, add(a) followed
\* by discard(a) leaves a graph where a is no node, no edge incident to a
\* is a member and the node set is the prior one without a; when a was no
\* node before, the graph is exactly as before.
C11_AddThenDiscard ==
    \A a \in Nodes : \A added \in AddNode(heap[1], a) :
        \A r \in DiscardNode(added.g, a) :
            /\ a \notin NodesOf(r.g)
            /\ IncidentEdges(r.g, a) = {}
            /\ NodesOf(r.g) = NodesOf(heap[1]) \ {a}
            /\ a \notin NodesOf(heap[1]) => r.g = heap[1]

\* C12: discard(item) never raises, for a node key or an edge key, in any
\* reachable state; an absent item leaves the graph as it is.
C12_DiscardNeverRaises ==
    /\ last.op \in {"discard_node", "discard_edge"} => last.out = "ok"
    /\ \A a \in Nodes \ NodesOf(heap[1]) :
          DiscardNode(heap[1], a) = {Outcome(heap[1], "ok")}
    /\ \A e \in (Nodes \X Nodes) \ EdgesOf(heap[1]) :
          DiscardEdge(heap[1], e[1], e[2]) = {Outcome(heap[1], "ok")}

\* C13: get(item, default) never raises and never changes the graph; for
\* an edge key it returns the stored value if the edge exists and default
\* otherwise, for a node key the adjacency view if the node exists and
\* default otherwise.
C13_GetReturnsDefault ==
    /\ last.op = "get_edge" =>
          /\ last.out = "ok"
          /\ last.ret = Ret("value",
                IF <<last.a, last.b>> \in EdgesOf(heap[1])
                THEN heap[1].edge_values[<<last.a, last.b>>]
                ELSE last.v)
    /\ last.op = "get_node" =>
          /\ last.out = "ok"
          /\ last.ret = IF last.a \in NodesOf(heap[1])
                        THEN Ret("view", last.a)
                        ELSE Ret("value", last.v)
    /\ \A a \in Nodes, d \in Defaults :
          /\ \A r \in GetNode(heap[1], a, d) : r.g = heap[1]
          /\ \A b \in Nodes : \A r \in GetEdgeCall(heap[1], a, b, d) : r.g = heap[1]

\* C13 witness: get on an edge between two values that are no nodes has
\* returned the default given, a value other than None.
C13_Witness ==
    /\ last.op = "get_edge"
    /\ last.a \notin NodesOf(heap[1])
    /\ last.b \notin NodesOf(heap[1])
    /\ last.v # None
    /\ last.ret = Ret("value", last.v)

\* C14: g[n] returns the adjacency view of n iff n is a node and raises
\* NodeError otherwise; g[a:b] returns the stored value iff (a, b) is an
\* edge and raises EdgeError otherwise, also when a or b is no node;
\* neither changes the graph.
C14_GetItemRaises ==
    /\ last.op = "getitem_node" =>
          IF last.a \in NodesOf(heap[1])
          THEN last.out = "ok" /\ last.ret = Ret("view", last.a)
          ELSE last.out = "NodeError"
    /\ last.op = "getitem_edge" =>
          IF <<last.a, last.b>> \in EdgesOf(heap[1])
          THEN /\ last.out = "ok"
               /\ last.ret = Ret("value", heap[1].edge_values[<<last.a, last.b>>])
          ELSE last.out = "EdgeError"
    /\ \A a \in Nodes :
          /\ \A r \in GetItemNode(heap[1], a) : r.g = heap[1]
          /\ \A b \in Nodes : \A r \in GetItemEdgeCall(heap[1], a, b) : r.g = heap[1]

\* C14 witness: g[a:b] has raised EdgeError for a tail that is no node.
C14_Witness ==
    /\ last.op = "getitem_edge"
    /\ last.out = "EdgeError"
    /\ last.a \notin NodesOf(heap[1])

\* C15: `del g[a:b]` raises EdgeError and changes nothing when (a, b) is
\* no edge; otherwise it removes exactly that edge and its value and drops
\* b from a's adjacency, the node set and every other edge and value
\* staying as they are.
C15_DelEdgeExact ==
    \A a \in Nodes, b \in Nodes : \A r \in DelItemEdge(heap[1], a, b) :
        IF <<a, b>> \in EdgesOf(heap[1])
        THEN /\ r.out = "ok"
             /\ r.g.edge_values = DictDrop(heap[1].edge_values, {<<a, b>>})
             /\ NodesOf(r.g) = NodesOf(heap[1])
             /\ b \notin Neighbours(r.g, a)
             /\ \A n \in NodesOf(heap[1]) \ {a} : Neighbours(r.g, n) = Neighbours(heap[1], n)
        ELSE r = Outcome(heap[1], "EdgeError")

\* C16: add(n) never fails; on a graph that contains n it changes nothing,
\* and a second add(n) changes nothing after the first.
C16_AddIdempotent ==
    \A n \in Nodes : \A r \in AddNode(heap[1], n) :
        /\ r.out = "ok"
        /\ n \in NodesOf(r.g)
        /\ n \in NodesOf(heap[1]) => r.g = heap[1]
        /\ AddNode(r.g, n) = {r}

\* C16 witness: add(n) has been called on a node that has outgoing and
\* incoming edges.
C16_Witness ==
    /\ last.op = "add"
    /\ Neighbours(heap[1], last.a) # {}
    /\ \E b \in Nodes \ {last.a} :
          /\ <<last.a, b>> \in EdgesOf(heap[1])
          /\ <<b, last.a>> \in EdgesOf(heap[1])

\* C17: from every reachable state and for every node key item,
\* `graph[item] = True` ends in the state `graph.add(item)` ends in.
C17_SetTrueIsAdd ==
    \A item \in Nodes : SetItemTrue(heap[1], item) = AddNode(heap[1], item)

\* C17 witness: `graph[item] = True` has been called on a node that has
\* neighbours.
C17_Witness ==
    /\ last.op = "set_true"
    /\ last.a \in NodesOf(heap[1])
    /\ Neighbours(heap[1], last.a) # {}

C19_SetMappingSetsEdges ==
    \A n \in Nodes, M \in AdjMappings : \A r \in SetItemMapping(heap[1], n, M) :
        /\ r.out = "ok"
        /\ n \in NodesOf(r.g)
        /\ DOMAIN M \subseteq NodesOf(r.g)
        /\ \A h \in DOMAIN M :
              GetItemEdge(r.g, n, h) = [out |-> "ok", value |-> M[h]]

\* C19 witness: a mapping with a head has been assigned to a node, and the
\* edge to that head carries the mapping's value, which is not True.
C19_Witness ==
    /\ last.op = "set_mapping"
    /\ \E h \in DOMAIN last.src :
          /\ last.src[h] # ValTrue
          /\ GetItemEdge(heap[1], last.a, h).value = last.src[h]

\* C20: a successful `g[a:b] = v` changes the entry of (a, b) alone: the
\* node set, every other edge and value and every other adjacency set stay
\* as they are; for a # b the edge (b, a) is neither created, removed nor
\* revalued.
C20_SetEdgeDirected ==
    \A a \in Nodes, b \in Nodes, v \in Values :
        \A r \in SetItemEdge(heap[1], a, b, v) :
            r.out = "ok" =>
                /\ NodesOf(r.g) = NodesOf(heap[1])
                /\ DictDrop(r.g.edge_values, {<<a, b>>})
                       = DictDrop(heap[1].edge_values, {<<a, b>>})
                /\ \A n \in NodesOf(heap[1]) \ {a} :
                      Neighbours(r.g, n) = Neighbours(heap[1], n)

\* C20 witness: an edge has been set between two distinct nodes while the
\* reverse edge carries another value.
C20_Witness ==
    /\ last.op = "set_edge"
    /\ last.out = "ok"
    /\ last.a # last.b
    /\ <<last.b, last.a>> \in EdgesOf(heap[1])
    /\ heap[1].edge_values[<<last.b, last.a>>] # last.v

\* the five lengths a caller can take of a graph
Lengths(g) == <<GraphLen(g), NodeViewLen(g), EdgeViewLen(g), ValueViewLen(g), ItemViewLen(g)>>

\* C21: in every reachable state len(g) and len(g.nodes()) are the number
\* of distinct nodes, len(g.edges()), len(g.values()) and len(g.items())
\* the number of member edges, the values view yielding one value per edge;
\* overwriting an existing edge changes none of these lengths.
C21_LengthsCount ==
    LET g == heap[1]
    IN /\ GraphLen(g) = Cardinality(NodesOf(g))
       /\ NodeViewLen(g) = Cardinality(NodesOf(g))
       /\ EdgeViewLen(g) = Cardinality(EdgesOf(g))
       /\ ValueViewLen(g) = Cardinality(EdgesOf(g))
       /\ ItemViewLen(g) = Cardinality(EdgesOf(g))
       /\ BagCardinality(ValueViewBag(g)) = ValueViewLen(g)
       /\ \A e \in EdgesOf(g), v \in Values :
             \A r \in SetItemEdge(g, e[1], e[2], v) : Lengths(r.g) = Lengths(g)

\* C21 witness: an edge has been set while another edge carries the same
\* value, so that two edges share one value.
C21_Witness ==
    /\ last.op = "set_edge"
    /\ last.out = "ok"
    /\ \E e \in EdgesOf(heap[1]) \ {<<last.a, last.b>>} :
          heap[1].edge_values[e] = last.v
    /\ ValueViewLen(heap[1]) > Cardinality(DOMAIN ValueViewBag(heap[1]))

\* C28: clear() never fails and empties the graph from every reachable
\* state: no nodes, no edges, no values, len 0 and bool false; the cleared
\* graph takes new nodes and edges.
C28_ClearEmpties ==
    \A r \in Clear(heap[1]) :
        /\ r.out = "ok"
        /\ NodesOf(r.g) = {}
        /\ EdgesOf(r.g) = {}
        /\ Lengths(r.g) = <<0, 0, 0, 0, 0>>
        /\ ~Bool(r.g)
        /\ \A a \in Nodes, b \in Nodes : \A again \in AddEdge(r.g, a, b) :
              /\ again.out = "ok"
              /\ NodesOf(again.g) = {a, b}
              /\ EdgesOf(again.g) = {<<a, b>>}

\* C28 witness: clear() has returned and left the empty graph.
C28_Witness ==
    /\ last.op = "clear"
    /\ last.out = "ok"
    /\ heap[1] = EmptyGraph

\* the reference model of a graph: a node set and a partial map from pairs
\* of nodes to values
Abs(g) == [nodes |-> NodesOf(g), values |-> g.edge_values]

RefResult(A, out) == [g |-> A, out |-> out]

RefAdd(A, n) == RefResult([A EXCEPT !.nodes = @ \cup {n}], "ok")

RefSetEdge(A, a, b, v) ==
    IF a \notin A.nodes \/ b \notin A.nodes
    THEN RefResult(A, "NodeError")
    ELSE RefResult([A EXCEPT !.values = DictPut(@, <<a, b>>, v)], "ok")

RefDelNode(A, n) ==
    IF n \notin A.nodes
    THEN RefResult(A, "NodeError")
    ELSE RefResult([nodes |-> A.nodes \ {n},
                    values |-> DictDrop(A.values,
                                  {e \in DOMAIN A.values : n = e[1] \/ n = e[2]})], "ok")

RefDelEdge(A, a, b) ==
    IF <<a, b>> \notin DOMAIN A.values
    THEN RefResult(A, "EdgeError")
    ELSE RefResult([A EXCEPT !.values = DictDrop(@, {<<a, b>>})], "ok")

\* what a caller can observe of the reference model
ObserveRef(A) ==
    [nodes |-> A.nodes,
     values |-> A.values,
     neighbours |-> [n \in A.nodes |-> {b \in A.nodes : <<n, b>> \in DOMAIN A.values}],
     outdegree |-> [n \in A.nodes |->
                       Cardinality({b \in A.nodes : <<n, b>> \in DOMAIN A.values})],
     len |-> Cardinality(A.nodes),
     edge_count |-> Cardinality(DOMAIN A.values)]

\* the same observations of the graph: membership, values, iteration over
\* graph[n], len(graph[n]), len(graph), len(graph.edges())
Observe(g) ==
    [nodes |-> NodesOf(g),
     values |-> g.edge_values,
     neighbours |-> [n \in NodesOf(g) |-> Neighbours(g, n)],
     outdegree |-> [n \in NodesOf(g) |-> AdjacencyLen(g, n)],
     len |-> GraphLen(g),
     edge_count |-> EdgeViewLen(g)]

\* one call simulates its reference: same error kind, same observations after
Simulates(outcomes, ref) ==
    \A r \in outcomes : r.out = ref.out /\ Observe(r.g) = ObserveRef(ref.g)

\* C29: the graph and the reference model it represents cannot be told
\* apart: in every reachable state the observations agree, and every call
\* of add, set edge, delete node and delete edge ends with the error kind
\* and the observations of the same call on the reference model.
C29_RefinesReference ==
    LET g == heap[1]
        A == Abs(heap[1])
    IN /\ Observe(g) = ObserveRef(A)
       /\ \A n \in Nodes :
             /\ Simulates(AddNode(g, n), RefAdd(A, n))
             /\ Simulates(DelItemNode(g, n), RefDelNode(A, n))
       /\ \A a \in Nodes, b \in Nodes :
             /\ Simulates(DelItemEdge(g, a, b), RefDelEdge(A, a, b))
             /\ \A v \in Values : Simulates(SetItemEdge(g, a, b, v), RefSetEdge(A, a, b, v))

\* C23: str(graph) never fails, for every node count and in every
\* reachable state, states reached after node deletions included.
C23_StrNeverFails ==
    last.op = "str" => last.out = "ok"

\* the positional arguments and the keyword arguments of the last construction
NewSource == last.src.source

NewKwargs == last.src.kwargs

\* the nodes a sequence of nodes names
Range(items) == {items[i] : i \in DOMAIN items}

\* C24: CythonGraph(M) for a nested mapping M yields a graph whose nodes are
\* the keys of M and every head named in M, whose edges are exactly the
\* (t, h) with h in M[t], and where g[t:h] == M[t][h].
C24_NewFromMapping ==
    (/\ last.op = "new"
     /\ Len(NewSource) = 1
     /\ NewSource[1].class = "mapping"
     /\ NewKwargs = {})
    => LET M == NewSource[1].m
       IN /\ last.out = "ok"
          /\ Bound("G2")
          /\ NodesOf(heap[g2]) = (DOMAIN M) \cup UNION {DOMAIN M[t] : t \in DOMAIN M}
          /\ EdgesOf(heap[g2]) = {e \in Nodes \X Nodes : e[1] \in DOMAIN M /\ e[2] \in DOMAIN M[e[1]]}
          /\ \A e \in EdgesOf(heap[g2]) :
                GetItemEdge(heap[g2], e[1], e[2]) = [out |-> "ok", value |-> M[e[1]][e[2]]]
          /\ \A n \in NodesOf(heap[g2]) :
                Neighbours(heap[g2], n) = {h \in Nodes : <<n, h>> \in EdgesOf(heap[g2])}

\* C24 witness: a graph has been constructed from a nested mapping that
\* names a head which is no key, with a value other than True.
C24_Witness ==
    /\ last.op = "new"
    /\ last.out = "ok"
    /\ Len(NewSource) = 1
    /\ NewSource[1].class = "mapping"
    /\ \E t \in DOMAIN NewSource[1].m : \E h \in DOMAIN NewSource[1].m[t] :
          /\ h \notin DOMAIN NewSource[1].m
          /\ NewSource[1].m[t][h] # ValTrue
          /\ h \in NodesOf(heap[g2])

\* C25: CythonGraph() yields the empty graph; CythonGraph(iterable) for one
\* flat iterable of nodes and CythonGraph(*nodes) for several nodes yield a
\* graph whose nodes are exactly the given nodes, duplicates collapsed, and
\* which has no edges.
C25_NewFromNodes ==
    (/\ last.op = "new"
     /\ NewKwargs = {}
     /\ \/ NewSource = <<>>
        \/ Len(NewSource) = 1 /\ NewSource[1].class = "iterable"
        \/ \A i \in DOMAIN NewSource : NewSource[i].class = "node")
    => LET given == IF NewSource = <<>>
                    THEN {}
                    ELSE IF NewSource[1].class = "iterable"
                    THEN Range(NewSource[1].items)
                    ELSE {NewSource[i].n : i \in DOMAIN NewSource}
       IN /\ last.out = "ok"
          /\ Bound("G2")
          /\ NodesOf(heap[g2]) = given
          /\ GraphLen(heap[g2]) = Cardinality(given)
          /\ EdgesOf(heap[g2]) = {}
          /\ \A n \in given : Neighbours(heap[g2], n) = {}

\* C25 witness: a graph has been constructed from several positional nodes,
\* one of them given twice.
C25_Witness ==
    /\ last.op = "new"
    /\ last.out = "ok"
    /\ Len(NewSource) = MaxArgs
    /\ \A i \in DOMAIN NewSource : NewSource[i].class = "node"
    /\ GraphLen(heap[g2]) = 2

\* C26: a construction with any keyword argument fails as TypeError naming
\* the keyword arguments, for every shape of the positional arguments, and
\* binds no graph.
C26_KwargsRejected ==
    (last.op = "new" /\ NewKwargs # {})
    => /\ last.out = "TypeError"
       /\ last.ret = Ret("names", NewKwargs)
       /\ ~Bound("G2")

\* the membership and the value of edge (a, b), and the membership of the
\* node that is the tuple (a, b)
EdgeEntry(g, a, b) == GetItemEdge(g, a, b)

HasPairNode(g, a, b) == Pair(a, b) \in NodesOf(g)

\* C27: a key that is a tuple (a, b) is a node key: add, lookup, membership
\* test, assignment and deletion with it act as on the node (a, b) and leave
\* the edge from a to b as it is; a key that is a slice a:b acts as on the
\* edge and leaves the node (a, b) as it is.
C27_TupleIsNodeKey ==
    LET g == heap[1]
    IN \A a \in Nodes, b \in Nodes :
          LET node == Pair(a, b)
              asNode == TupleKey(a, b)
              asEdge == SliceKey(a, b)
          IN /\ Add(g, asNode) = AddNode(g, node)
             /\ GetItem(g, asNode) = GetItemNode(g, node)
             /\ Contains(g, asNode) = {Returned(g, "ok", Ret("bool", node \in NodesOf(g)))}
             /\ SetItem(g, asNode, ValTrue) = SetItemTrue(g, node)
             /\ DelItem(g, asNode) = DelItemNode(g, node)
             /\ \A r \in Add(g, asNode) \cup SetItem(g, asNode, ValTrue) \cup DelItem(g, asNode) :
                   EdgeEntry(r.g, a, b) = EdgeEntry(g, a, b)
             /\ Add(g, asEdge) = AddEdge(g, a, b)
             /\ GetItem(g, asEdge) = GetItemEdgeCall(g, a, b)
             /\ Contains(g, asEdge) = {Returned(g, "ok", Ret("bool", <<a, b>> \in EdgesOf(g)))}
             /\ DelItem(g, asEdge) = DelItemEdge(g, a, b)
             /\ \A v \in Values : SetItem(g, asEdge, v) = SetItemEdge(g, a, b, v)
             /\ \A r \in Add(g, asEdge) \cup DelItem(g, asEdge)
                         \cup UNION {SetItem(g, asEdge, v) : v \in Values} :
                   HasPairNode(r.g, a, b) = HasPairNode(g, a, b)

\* C27 witness: the node (a, b) has been deleted by its tuple key while the
\* edge from a to b is a member, and stays one.
C27_Witness ==
    /\ last.op = "del_key"
    /\ last.out = "ok"
    /\ last.src.class = "tuple"
    /\ <<last.src.start, last.src.stop>> \in EdgesOf(heap[1])
    /\ ~HasPairNode(heap[1], last.src.start, last.src.stop)

C30_IterationKeepsGraphSound ==
    iter.state \in {"running", "done"} =>
        /\ \A e \in EdgesOf(heap[1]) : e[1] \in NodesOf(heap[1]) /\ e[2] \in NodesOf(heap[1])
        /\ \A n \in NodesOf(heap[1]) :
              Neighbours(heap[1], n) = {h \in Nodes : <<n, h>> \in EdgesOf(heap[1])}

\* C31: through a symmetry wrapper, after any sequence of edge sets and edge
\* deletions, (a, b) is a member iff (b, a) is a member and both carry
\* equal values; and setting (a, b) = v through the wrapper makes a read of
\* (b, a) through the wrapper return v.
C31_WrapperKeepsSymmetry ==
    /\ \A a \in Nodes, b \in Nodes :
          /\ <<a, b>> \in EdgesOf(Wrapped) <=> <<b, a>> \in EdgesOf(Wrapped)
          /\ <<a, b>> \in EdgesOf(Wrapped) =>
                Wrapped.edge_values[<<a, b>>] = Wrapped.edge_values[<<b, a>>]
    /\ \A a \in Nodes, b \in Nodes, v \in Values :
          \A r \in WrapSetEdge(TheWrapper, Wrapped, a, b, v) :
              r.out = "ok" =>
                  \A q \in WrapGetEdge(TheWrapper, r.g, b, a) :
                      q.out = "ok" /\ q.ret = Ret("value", v)

\* an edge between two distinct nodes, one of them with an edge to itself,
\* has been given a value other than True through the wrapper, and its
\* mirror image carries that value
C31_Witness ==
    /\ last.op = "w_set_edge"
    /\ last.out = "ok"
    /\ last.a # last.b
    /\ last.v # ValTrue
    /\ <<last.b, last.b>> \notin EdgesOf(Wrapped)
    /\ <<last.a, last.a>> \in EdgesOf(Wrapped)
    /\ Wrapped.edge_values[<<last.b, last.a>>] = last.v

C33_DelNodesCommute ==
    \A a \in NodesOf(heap[1]), b \in NodesOf(heap[1]) :
        a # b =>
            \A r1 \in DelItemNode(heap[1], a), q1 \in DelItemNode(heap[1], b) :
                /\ r1.out = "ok"
                /\ q1.out = "ok"
                /\ \A r2 \in DelItemNode(r1.g, b), q2 \in DelItemNode(q1.g, a) :
                      /\ r2.out = "ok"
                      /\ q2.out = "ok"
                      /\ r2.g = q2.g

\* C34: a node that is deleted and then added again is isolated: after
\* `del g[b]` and `g.add(b)`, for every node a the neighbours iterated by
\* g[a] do not include b, len(g[a]) does not count b, and neither (a, b)
\* nor (b, a) is a member.
C34_ReaddedNodeIsIsolated ==
    \A b \in NodesOf(heap[1]) :
        \A r \in DelItemNode(heap[1], b) :
            r.out = "ok" =>
                \A s \in AddNode(r.g, b) :
                    /\ s.out = "ok"
                    /\ \A a \in NodesOf(s.g) :
                          /\ b \notin Neighbours(s.g, a)
                          /\ AdjacencyLen(s.g, a) = Cardinality(Neighbours(s.g, a) \ {b})
                          /\ <<a, b>> \notin EdgesOf(s.g)
                          /\ <<b, a>> \notin EdgesOf(s.g)

\* C35: add(Edge[a:b]) never fails; afterwards a and b are nodes and (a, b)
\* is a member, with the value it had if it was a member before and with
\* True otherwise; no other node, edge or value changes.
C35_AddEdgeEnsures ==
    LET g == heap[1]
    IN \A a \in Nodes, b \in Nodes :
           \A r \in AddEdge(g, a, b) :
               /\ r.out = "ok"
               /\ NodesOf(r.g) = NodesOf(g) \cup {a, b}
               /\ EdgesOf(r.g) = EdgesOf(g) \cup {<<a, b>>}
               /\ \A e \in EdgesOf(g) : r.g.edge_values[e] = g.edge_values[e]
               /\ <<a, b>> \notin EdgesOf(g) => r.g.edge_values[<<a, b>>] = ValTrue

\* add(Edge[a:b]) has been called on an edge that carried a value other
\* than True, and the edge carries it still
C35_Witness ==
    /\ last.op = "add_edge"
    /\ last.out = "ok"
    /\ <<last.a, last.b>> \in EdgesOf(heap[1])
    /\ heap[1].edge_values[<<last.a, last.b>>] # ValTrue

\* C36: `g[n] = M` for a mapping M merges: every edge (n, h) whose head h is
\* not a key of M stays a member with its value, every node stays a node,
\* and the edges whose tail is not n are the same, with the same values,
\* before and after.
C36_SetMappingMerges ==
    LET g == heap[1]
    IN \A n \in Nodes, M \in AdjMappings :
           \A r \in SetItemMapping(g, n, M) :
               /\ NodesOf(g) \subseteq NodesOf(r.g)
               /\ \A e \in EdgesOf(g) :
                     (e[1] # n \/ e[2] \notin DOMAIN M) =>
                         /\ e \in EdgesOf(r.g)
                         /\ r.g.edge_values[e] = g.edge_values[e]
               /\ \A e \in EdgesOf(r.g) : e[1] # n => e \in EdgesOf(g)

\* a mapping with a head has been assigned to a node that keeps an edge,
\* with a value other than True, to a head the mapping does not name
C36_Witness ==
    /\ last.op = "set_mapping"
    /\ last.out = "ok"
    /\ DOMAIN last.src # {}
    /\ \E h \in Nodes \ DOMAIN last.src :
          /\ <<last.a, h>> \in EdgesOf(heap[1])
          /\ heap[1].edge_values[<<last.a, h>>] # ValTrue

\* C37: `(a, b, v) in g.items()` is true iff (a, b) is a member and its
\* stored value equals v, and false, not an error, when the edge is absent
\* or carries another value; the triples g.items() iterates are exactly
\* (a, b, g[a:b]) for the members (a, b), their edges being what g.edges()
\* iterates and their values, duplicates kept, what g.values() iterates.
C37_ItemMembershipIsExact ==
    LET g == heap[1]
        items == ItemViewRead(g)
    IN /\ \A a \in Nodes, b \in Nodes, v \in Values :
             ItemViewContains(g, <<a, b, v>>) =
                 {Returned(g, "ok", Ret("bool", /\ <<a, b>> \in EdgesOf(g)
                                                /\ GetItemEdge(g, a, b).value = v))}
       /\ items.out = "ok"
       /\ items.contents =
             {<<e[1], e[2], GetItemEdge(g, e[1], e[2]).value>> : e \in EdgesOf(g)}
       /\ \A i \in items.contents : GetItemEdge(g, i[1], i[2]).out = "ok"
       /\ items.members =
             {i \in Nodes \X Nodes \X Values :
                 ItemViewContains(g, i) = {Returned(g, "ok", Ret("bool", TRUE))}}
       /\ {<<i[1], i[2]>> : i \in items.contents} = EdgeViewRead(g).contents
       /\ ValueViewRead(g).contents =
             [v \in {i[3] : i \in items.contents}
                 |-> Cardinality({i \in items.contents : i[3] = v})]

\* the item view of a graph has been read while one edge is absent and two
\* edges carry the same value, other than True
C37_Witness ==
    /\ last.op = "view_read"
    /\ last.out = "ok"
    /\ view.kind = "items"
    /\ (Nodes \X Nodes) \ EdgesOf(heap[1]) # {}
    /\ \E e \in EdgesOf(heap[1]), f \in EdgesOf(heap[1]) :
          /\ e # f
          /\ heap[1].edge_values[e] = heap[1].edge_values[f]
          /\ heap[1].edge_values[e] # ValTrue

====
